---- MODULE Spec2Model ----
(***************************************************************************)
(* Model of package upsched (src/upsched/upsched.go, and the earlier copy  *)
(* of the same code in src/unnamed/part_000): a registry m from upload key *)
(* to upload{timeout, timer}, handled by Prepare, Append and Finish, which *)
(* any number of goroutines may call concurrently, and by the function f   *)
(* that every timer created by Prepare runs in a goroutine of its own.     *)
(*                                                                         *)
(* Each action is one atomic step of a goroutine: a haxmap Get/Set/Del or  *)
(* a time.Timer Stop/Reset/AfterFunc, together with the local computation  *)
(* that follows it up to the next such step.  Goroutines are asynchronous: *)
(* any amount of time may pass between two steps.  Time is discrete;       *)
(* durations are counted in ticks (the model's nanosecond) and Second      *)
(* ticks make one second.                                                  *)
(*                                                                         *)
(* The program state is m, timers, fs, pc, lk, lt, lu.  The other          *)
(* variables observe the run (what a call returned, how often a callback   *)
(* ran, what happened to a session); the program never reads them.  obs    *)
(* names the observations a specification records, so that each property   *)
(* is checked over the program state and its own observations only.        *)
(*                                                                         *)
(* The functions of the packages that depend on their arguments only       *)
(* (the duration Prepare computes, godl's ServeDownload) are modelled as   *)
(* operators; a specification of their own applies them to arguments drawn *)
(* from bounded sets (arg) and keeps the result (out).                     *)
(***************************************************************************)
EXTENDS Integers, FiniteSets, Sequences, Bags, TLC

\* ---- bounds of the model ------------------------------------------------
NumKeys == 2        \* keys 1..NumKeys
NumProcs == 2       \* goroutines calling Prepare/Append/Finish
MaxTimers == 2      \* Prepare calls that get past the existence check
MaxTimeout == 1     \* timeout arguments 1..MaxTimeout
MaxFs == 2          \* timer functions f running at the same moment
MaxChunks == 1      \* io.Copy calls counted on the destination
MaxTypes == 2       \* length of the inlineTypes list given to ServeDownload
Second == 2         \* ticks per second (time.Second, scaled down)

Keys == 1..NumKeys
Procs == 1..NumProcs
TimerIds == 1..MaxTimers
Timeouts == 1..MaxTimeout

VARIABLES
  m,        \* scheduler.m: the keys present and their upload{timeout, timer}
  timers,   \* the time.Timer objects made by time.AfterFunc
  fs,       \* bag of running timer functions f (one per firing)
  pc,       \* per calling goroutine: where it is in Prepare/Append/Finish
  lk,       \* per calling goroutine: argument k
  lt,       \* per calling goroutine: Prepare's argument timeout
  lu,       \* per calling goroutine: local u (Append, Finish) / new upload (Prepare)
  obs,      \* the observations this run records (fixed by Init)
  ret,      \* what the step just taken returned, and to which caller
  dst,      \* number of io.Copy calls made on a destination
  cbNil,    \* per Prepare (timer id): calls cb(k, nil)
  cbErr,    \* per Prepare (timer id): calls cb(k, err) with err # nil
  hist,     \* per session (timer id): what has happened to it
  slack,    \* per key: ticks left for the next Append to come within the timeout
  arg,      \* the argument a function of the package is applied to
  out       \* the result of that application

vars == <<m, timers, fs, pc, lk, lt, lu, obs, ret, dst, cbNil, cbErr, hist, slack, arg, out>>

\* An observation is recorded only when the specification asks for it.
Rec(what, new, old) == IF what \in obs THEN new ELSE old

\* ---- values -------------------------------------------------------------
NoTimer == 0
NoUpload == [timeout |-> 0, timer |-> NoTimer]
NoRet == [p |-> 0, r |-> "none"]
NoValue == [f |-> "none"]
NewTimer == [key |-> 0, made |-> FALSE, armed |-> FALSE, rem |-> 0]
NewHist == [stored |-> FALSE, fired |-> FALSE, fin |-> "no", touched |-> FALSE]

Min(a, b) == IF a < b THEN a ELSE b
Max(a, b) == IF a > b THEN a ELSE b

\* ---- haxmap.Map -----------------------------------------------------------
Has(k) == k \in DOMAIN m
MapSet(mm, k, u) == [x \in (DOMAIN mm) \cup {k} |-> IF x = k THEN u ELSE mm[x]]
\* Del that empties the registry instead of removing one key.
MapDelAll(mm, k) == << >>
MapDel(mm, k) == [x \in (DOMAIN mm) \ {k} |-> mm[x]]

\* ---- time.Timer -----------------------------------------------------------
\* A timer armed with a duration d <= 0 is due at once.
Arm(tm, d) == [tm EXCEPT !.armed = TRUE, !.rem = Max(d, 0)]
AfterFunc(ts, t, k, d) == [ts EXCEPT ![t] = Arm([@ EXCEPT !.key = k, !.made = TRUE], d)]
Stop(ts, t) == [ts EXCEPT ![t].armed = FALSE, ![t].rem = 0]
Reset(ts, t, d) == [ts EXCEPT ![t] = Arm(@, d)]

\* ---- durations ------------------------------------------------------------
\* Prepare: d := time.Second * time.Duration(timeout)
PrepareDuration(timeout) == Second * timeout
\* Append: defer u.timer.Reset(u.timeout)
ResetDuration(u) == u.timeout

\* The scheduler as NewScheduler returns it, with no call made.
NewScheduler(o) ==
  /\ obs = o
  /\ m = << >>
  /\ timers = [t \in TimerIds |-> NewTimer]
  /\ fs = EmptyBag
  /\ pc = [p \in Procs |-> "idle"]
  /\ lk = [p \in Procs |-> 0]
  /\ lt = [p \in Procs |-> 0]
  /\ lu = [p \in Procs |-> NoUpload]
  /\ ret = NoRet
  /\ dst = 0
  /\ cbNil = [t \in TimerIds |-> 0]
  /\ cbErr = [t \in TimerIds |-> 0]
  /\ hist = [t \in TimerIds |-> NewHist]
  /\ slack = [k \in Keys |-> 0]

InitWith(o) ==
  /\ NewScheduler(o)
  /\ arg = NoValue
  /\ out = NoValue

\* Timers made so far, and the id time.AfterFunc gives the next one.
Made == {t \in TimerIds : timers[t].made}
NextTimer == Cardinality(Made) + 1
TimersLeft == MaxTimers - Cardinality(Made) - Cardinality({q \in Procs : pc[q] = "prep_timer"})

\* A step that returns nothing to a caller.
Quiet == ret' = NoRet /\ obs' = obs /\ UNCHANGED <<arg, out>>

\* A caller returns r: its locals die.
Return(p, r) ==
  /\ pc' = [pc EXCEPT ![p] = "idle"]
  /\ lk' = [lk EXCEPT ![p] = 0]
  /\ lt' = [lt EXCEPT ![p] = 0]
  /\ lu' = [lu EXCEPT ![p] = NoUpload]
  /\ ret' = Rec("ret", [p |-> p, r |-> r], NoRet)
  /\ obs' = obs
  /\ UNCHANGED <<arg, out>>

\* Append or Finish is called on k: every session made for k so far is touched.
Touch(h, k) == [t \in TimerIds |-> IF timers[t].made /\ timers[t].key = k
                                   THEN [h[t] EXCEPT !.touched = Rec("touched", TRUE, @)]
                                   ELSE h[t]]

\* ---- Prepare ----------------------------------------------------------------
\* Prepare without the existence check: it goes on to build a timer and store
\* a session whether or not k is present.
PrepareCallUnchecked(p, k, timeout) ==
  /\ pc[p] = "idle"
  /\ TimersLeft > 0
  /\ pc' = [pc EXCEPT ![p] = "prep_timer"]
  /\ lk' = [lk EXCEPT ![p] = k]
  /\ lt' = [lt EXCEPT ![p] = timeout]
  /\ Quiet
  /\ UNCHANGED <<m, timers, fs, lu, dst, cbNil, cbErr, hist, slack>>

\* us.m.Get(k): present -> "upload key already exists"; absent -> go on to
\* compute d and build the timer.
PrepareCall(p, k, timeout) ==
  /\ pc[p] = "idle"
  /\ TimersLeft > 0
  /\ IF Has(k)
     THEN /\ Return(p, "ErrExists")
          /\ UNCHANGED <<m, timers, fs, dst, cbNil, cbErr, hist, slack>>
     ELSE /\ pc' = [pc EXCEPT ![p] = "prep_timer"]
          /\ lk' = [lk EXCEPT ![p] = k]
          /\ lt' = [lt EXCEPT ![p] = timeout]
          /\ Quiet
          /\ UNCHANGED <<m, timers, fs, lu, dst, cbNil, cbErr, hist, slack>>

\* time.AfterFunc(d, f), evaluated while the upload literal is built.
PrepareAfterFunc(p) ==
  /\ pc[p] = "prep_timer"
  /\ timers' = AfterFunc(timers, NextTimer, lk[p], PrepareDuration(lt[p]))
  /\ lu' = [lu EXCEPT ![p] = [timeout |-> lt[p], timer |-> NextTimer]]
  /\ pc' = [pc EXCEPT ![p] = "prep_set"]
  /\ slack' = [slack EXCEPT ![lk[p]] = Rec("slack", PrepareDuration(lt[p]), @)]
  /\ Quiet
  /\ UNCHANGED <<m, fs, lk, lt, dst, cbNil, cbErr, hist>>

\* us.m.Set(k, upload{timeout, timer}); return nil.
PrepareSet(p) ==
  /\ pc[p] = "prep_set"
  /\ m' = MapSet(m, lk[p], lu[p])
  /\ hist' = [hist EXCEPT ![lu[p].timer].stored = Rec("stored", TRUE, @)]
  /\ Return(p, "ok")
  /\ UNCHANGED <<timers, fs, dst, cbNil, cbErr, slack>>

\* An Append that finds the session within the timeout of the one before (or
\* of Prepare) restarts the time allowed for the next one; once an Append has
\* failed to come in time, slack stays 0.
InTime(left, u) == IF left > 0 THEN Rec("slack", PrepareDuration(u.timeout), left) ELSE left

\* ---- Append -----------------------------------------------------------------
\* u, ok := us.m.Get(k): absent -> "upload key does not exist".
AppendCall(p, k) ==
  /\ pc[p] = "idle"
  /\ hist' = Touch(hist, k)
  /\ IF ~Has(k)
     THEN /\ Return(p, "ErrAppendNoKey")
          /\ UNCHANGED <<m, timers, fs, dst, cbNil, cbErr, slack>>
     ELSE /\ pc' = [pc EXCEPT ![p] = "app_stop"]
          /\ lk' = [lk EXCEPT ![p] = k]
          /\ lu' = [lu EXCEPT ![p] = m[k]]
          /\ Quiet
          /\ slack' = [slack EXCEPT ![k] = InTime(@, m[k])]
          /\ UNCHANGED <<m, timers, fs, lt, dst, cbNil, cbErr>>

\* u.timer.Stop(); the deferred Reset is registered.
AppendStop(p) ==
  /\ pc[p] = "app_stop"
  /\ timers' = Stop(timers, lu[p].timer)
  /\ pc' = [pc EXCEPT ![p] = "app_copy"]
  /\ Quiet
  /\ UNCHANGED <<m, fs, lk, lt, lu, dst, cbNil, cbErr, hist, slack>>

\* io.Copy(dst, chunk) ends, with or without an error; the deferred
\* u.timer.Reset(u.timeout) runs and Append returns.
AppendCopy(p, failed) ==
  /\ pc[p] = "app_copy"
  /\ dst' = Rec("dst", Min(dst + 1, MaxChunks), dst)
  /\ timers' = Reset(timers, lu[p].timer, ResetDuration(lu[p]))
  /\ Return(p, IF failed THEN "ErrCopy" ELSE "ok")
  /\ UNCHANGED <<m, fs, cbNil, cbErr, hist, slack>>

\* ---- Finish, called by a client -----------------------------------------------
\* Finish that treats an absent key as already finished and returns nil.
FinishCallSilent(p, k) ==
  /\ pc[p] = "idle"
  /\ hist' = Touch(hist, k)
  /\ IF ~Has(k)
     THEN /\ Return(p, "ok")
          /\ UNCHANGED <<m, timers, fs, dst, cbNil, cbErr, slack>>
     ELSE /\ pc' = [pc EXCEPT ![p] = "fin_stop"]
          /\ lk' = [lk EXCEPT ![p] = k]
          /\ lu' = [lu EXCEPT ![p] = m[k]]
          /\ Quiet
          /\ UNCHANGED <<m, timers, fs, lt, dst, cbNil, cbErr, slack>>

\* u, ok := us.m.Get(k): absent -> "upload key does not exist".
FinishCall(p, k) ==
  /\ pc[p] = "idle"
  /\ hist' = Touch(hist, k)
  /\ IF ~Has(k)
     THEN /\ Return(p, "ErrFinishNoKey")
          /\ UNCHANGED <<m, timers, fs, dst, cbNil, cbErr, slack>>
     ELSE /\ pc' = [pc EXCEPT ![p] = "fin_stop"]
          /\ lk' = [lk EXCEPT ![p] = k]
          /\ lu' = [lu EXCEPT ![p] = m[k]]
          /\ Quiet
          /\ UNCHANGED <<m, timers, fs, lt, dst, cbNil, cbErr, slack>>

\* u.timer.Stop()
FinishStop(p) ==
  /\ pc[p] = "fin_stop"
  /\ timers' = Stop(timers, lu[p].timer)
  /\ pc' = [pc EXCEPT ![p] = "fin_del"]
  /\ Quiet
  /\ UNCHANGED <<m, fs, lk, lt, lu, dst, cbNil, cbErr, hist, slack>>

\* us.m.Del(k); return nil.  The history notes whether the timer of the
\* session this Finish read had fired by the time Finish returned.
FinishDel(p) ==
  /\ pc[p] = "fin_del"
  /\ m' = MapDel(m, lk[p])
  /\ hist' = [hist EXCEPT ![lu[p].timer].fin =
                Rec("fin", IF @ = "before" \/ ~hist[lu[p].timer].fired
                           THEN "before" ELSE "after", @)]
  /\ Return(p, "ok")
  /\ UNCHANGED <<timers, fs, dst, cbNil, cbErr, slack>>

\* ---- the timer and its function f -----------------------------------------------
\* A bag entry is one running f: the timer it belongs to (which fixes k and
\* cb), its position, and the timer Finish read from the registry.
FRun(t, at, ut) == [t |-> t, at |-> at, ut |-> ut]
Move(g, h) == (fs (-) SetToBag({g})) (+) SetToBag({h})
Leave(g) == fs (-) SetToBag({g})

\* The runtime finds timer t due and starts f in a new goroutine.
Fire(t) ==
  /\ timers[t].armed
  /\ timers[t].rem = 0
  /\ BagCardinality(fs) < MaxFs
  /\ timers' = Stop(timers, t)
  /\ fs' = fs (+) SetToBag({FRun(t, "get", NoTimer)})
  /\ hist' = [hist EXCEPT ![t].fired = Rec("fired", TRUE, @)]
  /\ Quiet
  /\ UNCHANGED <<m, pc, lk, lt, lu, dst, cbNil, cbErr, slack>>

\* f: if _, ok := us.m.Get(k); ok { ... }
FGet(g) ==
  /\ g \in BagToSet(fs)
  /\ g.at = "get"
  /\ fs' = IF Has(timers[g.t].key) THEN Move(g, FRun(g.t, "fin_get", NoTimer)) ELSE Leave(g)
  /\ Quiet
  /\ UNCHANGED <<m, timers, pc, lk, lt, lu, dst, cbNil, cbErr, hist, slack>>

\* f: err := us.Finish(k), its Get.  Absent -> Finish returns the error and
\* f calls cb(k, err).
FFinishGet(g) ==
  /\ g \in BagToSet(fs)
  /\ g.at = "fin_get"
  /\ IF Has(timers[g.t].key)
     THEN /\ fs' = Move(g, FRun(g.t, "fin_stop", m[timers[g.t].key].timer))
          /\ UNCHANGED cbErr
     ELSE /\ fs' = Leave(g)
          /\ cbErr' = [cbErr EXCEPT ![g.t] = Rec("cb", @ + 1, @)]
  /\ Quiet
  /\ UNCHANGED <<m, timers, pc, lk, lt, lu, dst, cbNil, hist, slack>>

\* f: Finish's u.timer.Stop()
FFinishStop(g) ==
  /\ g \in BagToSet(fs)
  /\ g.at = "fin_stop"
  /\ timers' = Stop(timers, g.ut)
  /\ fs' = Move(g, FRun(g.t, "fin_del", g.ut))
  /\ Quiet
  /\ UNCHANGED <<m, pc, lk, lt, lu, dst, cbNil, cbErr, hist, slack>>

\* f: Finish's us.m.Del(k), return nil, and cb(k, nil).
FFinishDel(g) ==
  /\ g \in BagToSet(fs)
  /\ g.at = "fin_del"
  /\ m' = MapDel(m, timers[g.t].key)
  /\ cbNil' = [cbNil EXCEPT ![g.t] = Rec("cb", @ + 1, @)]
  /\ fs' = Leave(g)
  /\ Quiet
  /\ UNCHANGED <<timers, pc, lk, lt, lu, dst, cbErr, hist, slack>>

\* ---- time ---------------------------------------------------------------------
\* One tick passes: no timer is left due, and every armed timer comes one
\* tick closer.
Tick ==
  /\ \A t \in TimerIds : ~(timers[t].armed /\ timers[t].rem = 0)
  /\ timers' = [t \in TimerIds |->
                  IF timers[t].armed THEN [timers[t] EXCEPT !.rem = @ - 1] ELSE timers[t]]
  /\ slack' = [k \in Keys |-> Max(slack[k] - 1, 0)]
  /\ Quiet
  /\ UNCHANGED <<m, fs, pc, lk, lt, lu, dst, cbNil, cbErr, hist>>

FStates == {"get", "fin_get", "fin_stop", "fin_del"}
FRuns == [t : TimerIds, at : FStates, ut : TimerIds \cup {NoTimer}]

\* Every caller works on key 1: the calls on one key race with each other and
\* with the timers of that key.
Next ==
  \/ \E p \in Procs, timeout \in Timeouts : PrepareCall(p, 1, timeout)
  \/ \E p \in Procs : PrepareAfterFunc(p)
  \/ \E p \in Procs : PrepareSet(p)
  \/ \E p \in Procs : AppendCall(p, 1)
  \/ \E p \in Procs : AppendStop(p)
  \/ \E p \in Procs, failed \in BOOLEAN : AppendCopy(p, failed)
  \/ \E p \in Procs : FinishCall(p, 1)
  \/ \E p \in Procs : FinishStop(p)
  \/ \E p \in Procs : FinishDel(p)
  \/ \E t \in TimerIds : Fire(t)
  \/ \E g \in FRuns : FGet(g)
  \/ \E g \in FRuns : FFinishGet(g)
  \/ \E g \in FRuns : FFinishStop(g)
  \/ \E g \in FRuns : FFinishDel(g)
  \/ Tick

\* Concurrent callers on distinct keys: caller p works on its own key.
KeyOf(p) == ((p - 1) % NumKeys) + 1
NextKeys ==
  \/ \E p \in Procs, timeout \in Timeouts : PrepareCall(p, KeyOf(p), timeout)
  \/ \E p \in Procs : PrepareAfterFunc(p)
  \/ \E p \in Procs : PrepareSet(p)
  \/ \E p \in Procs : AppendCall(p, KeyOf(p))
  \/ \E p \in Procs : AppendStop(p)
  \/ \E p \in Procs, failed \in BOOLEAN : AppendCopy(p, failed)
  \/ \E p \in Procs : FinishCall(p, KeyOf(p))
  \/ \E p \in Procs : FinishStop(p)
  \/ \E p \in Procs : FinishDel(p)
  \/ \E t \in TimerIds : Fire(t)
  \/ \E g \in FRuns : FGet(g)
  \/ \E g \in FRuns : FFinishGet(g)
  \/ \E g \in FRuns : FFinishStop(g)
  \/ \E g \in FRuns : FFinishDel(g)
  \/ Tick

\* Results of the calls and the destination are observed.
Init == InitWith({"ret", "dst"})
Spec == Init /\ [][Next]_vars

\* Results of the calls and the callbacks are observed, for callers on
\* distinct keys.
InitKeys == InitWith({"ret", "cb"})
SpecKeys == InitKeys /\ [][NextKeys]_vars

\* Callbacks and what Finish and the timers did to each session are observed.
InitFinish == InitWith({"cb", "fired", "fin"})
SpecFinish == InitFinish /\ [][Next]_vars

\* Callbacks and the calls made on a key since its Prepare are observed.
InitExpiry == InitWith({"cb", "stored", "touched", "fired"})
SpecExpiry == InitExpiry /\ [][Next]_vars

\* Callbacks and the time left for the next Append of a key are observed.
InitIdle == InitWith({"cb", "slack"})
SpecIdle == InitIdle /\ [][Next]_vars

\* ==== properties ==================================================================
Calls(t) == cbNil[t] + cbErr[t]
Returned(p, r) == ret = [p |-> p, r |-> r]

\* C1: a Prepare(k, ...) that finds k present returns "upload key already
\* exists" and changes nothing: no session is stored, no timer (and with it
\* no callback) is made or armed, no f is started, and the session of k keeps
\* its timeout and its timer as they were.
C1_DuplicatePrepare ==
  [][\A p \in Procs, k \in Keys, timeout \in Timeouts :
       (PrepareCall(p, k, timeout) /\ Has(k)) =>
         /\ Returned(p, "ErrExists")'
         /\ pc'[p] = "idle"
         /\ UNCHANGED <<m, timers, fs>>]_vars

\* A Prepare has just been rejected for a key whose session is in the
\* registry with its timer armed.
C1_Witness ==
  /\ ret.r = "ErrExists"
  /\ \E k \in DOMAIN m : timers[m[k].timer].armed /\ timers[m[k].timer].key = k

\* C2: an Append(k, ...) or a Finish(k) that finds k absent returns "upload
\* key does not exist" and changes nothing: the registry, every timer, the
\* running timer functions and the destination stay as they were.  This
\* covers a second Finish(k) after a Finish(k) that removed the session.
C2_UnknownKey ==
  [][\A p \in Procs, k \in Keys :
       /\ (AppendCall(p, k) /\ ~Has(k)) =>
            /\ Returned(p, "ErrAppendNoKey")'
            /\ pc'[p] = "idle"
            /\ UNCHANGED <<m, timers, fs, dst>>
       /\ (FinishCall(p, k) /\ ~Has(k)) =>
            /\ Returned(p, "ErrFinishNoKey")'
            /\ pc'[p] = "idle"
            /\ UNCHANGED <<m, timers, fs, dst>>]_vars

\* A Finish has just been rejected for a key that had a session, now removed,
\* after a chunk was copied to the destination.
C2_Witness ==
  /\ ret.r = "ErrFinishNoKey"
  /\ dst = 1
  /\ \E t \in TimerIds : timers[t].made /\ ~Has(timers[t].key)

\* The running timer functions that belong to timer t.
Running(t) == {g \in BagToSet(fs) : g.t = t}
\* The session made by the Prepare that made timer t is the one in the registry.
Current(t) == timers[t].made /\ Has(timers[t].key) /\ m[timers[t].key].timer = t

\* C3: the callback given to one Prepare is called at most once, and only by
\* a running timer function of the timer that Prepare made.
C3_CallbackAtMostOnce ==
  [][\A t \in TimerIds :
       /\ Calls(t)' <= 1
       /\ Calls(t)' # Calls(t) => Running(t) # {} /\ ret' = NoRet]_vars

\* C4: it never happens that a Finish called by a client returns nil for a
\* session and the callback of that session is called too, and the callback
\* is never called by a timer function whose Finish found the key removed.
C4_FinishXorExpiry ==
  \A t \in TimerIds :
    /\ hist[t].fin # "no" => Calls(t) = 0
    /\ cbErr[t] = 0

\* C5: if a Finish called by a client returns nil for a session before the
\* timer of that session has fired, the callback of that session is never
\* called.
C5_FinishSuppressesExpiry ==
  \A t \in TimerIds : hist[t].fin = "before" => Calls(t) = 0

\* C6: when Prepare has stored a session and returned, no Append and no
\* Finish has been called on its key, and its timer has fired and the timer
\* function has run to its end, then the callback was called exactly once,
\* with a nil error, and the session is no longer in the registry.
C6_ExpiryFiresOnce ==
  \A t \in TimerIds :
    (/\ hist[t].stored
     /\ ~hist[t].touched
     /\ hist[t].fired
     /\ ~timers[t].armed
     /\ Running(t) = {})
    => /\ cbNil[t] = 1
       /\ cbErr[t] = 0
       /\ ~Current(t)

\* C7: while every Append on a key has come less than the timeout (in
\* seconds) after the one before it, or after Prepare, no callback is called
\* for that key and no timer function removes its session.
C7_AppendKeepsAlive ==
  [][\A t \in TimerIds :
       Calls(t)' # Calls(t) => slack[timers[t].key] = 0]_vars

\* C8: while an Append on k is between its Stop and its Reset, no timer
\* function removes the session of k or calls a callback for k.
C8_NoExpiryDuringAppend ==
  [][\A p \in Procs :
       (pc[p] = "app_copy" /\ pc'[p] = "app_copy") =>
         \A t \in TimerIds : timers[t].key = lk[p] => Calls(t)' = Calls(t)]_vars

\* C9: when Append returns, after a copy that failed or not, it returns the
\* copy error or nil accordingly, leaves the registry as it was, and its
\* timer is armed for the full timeout, that is for the duration Prepare
\* armed it with.
C9_AppendRearms ==
  [][\A p \in Procs, failed \in BOOLEAN :
       AppendCopy(p, failed) =>
         /\ Returned(p, IF failed THEN "ErrCopy" ELSE "ok")'
         /\ m' = m
         /\ timers'[lu[p].timer].armed
         /\ timers'[lu[p].timer].rem = PrepareDuration(lu[p].timeout)]_vars

\* Everything the scheduler holds for key j: its registry entry, its timers
\* with their callbacks, and its running timer functions.
KeyState(j) ==
  << IF Has(j) THEN m[j] ELSE NoUpload,
     [t \in TimerIds |-> IF timers[t].key = j THEN <<timers[t], cbNil[t], cbErr[t]>> ELSE << >>],
     [g \in {x \in BagToSet(fs) : timers[x.t].key = j} |-> fs[g]] >>

\* The step is a step of Prepare, Append, Finish or of a timer of key k.
ActsOn(k) ==
  \/ \E p \in Procs, timeout \in Timeouts : PrepareCall(p, k, timeout)
  \/ \E p \in Procs : AppendCall(p, k) \/ FinishCall(p, k)
  \/ \E p \in Procs :
       /\ lk[p] = k
       /\ \/ PrepareAfterFunc(p) \/ PrepareSet(p)
          \/ AppendStop(p) \/ (\E failed \in BOOLEAN : AppendCopy(p, failed))
          \/ FinishStop(p) \/ FinishDel(p)
  \/ \E t \in TimerIds : timers[t].key = k /\ Fire(t)
  \/ \E g \in FRuns :
       /\ timers[g.t].key = k
       /\ FGet(g) \/ FFinishGet(g) \/ FFinishStop(g) \/ FFinishDel(g)

\* C10: a step of Prepare, Append, Finish or of a timer of key k leaves
\* everything held for any other key unchanged; and a key enters the
\* registry exactly when a Prepare on it returns nil, and leaves it only when
\* a Finish on it returns nil or a timer function of the key calls cb(k, nil).
C10_KeysIndependent ==
  [][\A k \in Keys :
       /\ ActsOn(k) => \A j \in Keys \ {k} : UNCHANGED KeyState(j)
       /\ (\E p \in Procs : PrepareSet(p) /\ lk[p] = k) => Has(k)' /\ ret'.r = "ok"
       /\ (Has(k)' /\ ~Has(k)) => \E p \in Procs : PrepareSet(p) /\ lk[p] = k
       /\ (\E p \in Procs : FinishDel(p) /\ lk[p] = k) => ~Has(k)' /\ ret'.r = "ok"
       /\ (\E g \in FRuns : FFinishDel(g) /\ timers[g.t].key = k) => ~Has(k)'
       /\ (Has(k) /\ ~Has(k)') =>
            \/ \E p \in Procs : pc[p] = "fin_del" /\ lk[p] = k /\ Returned(p, "ok")'
            \/ \E t \in TimerIds : timers[t].key = k /\ cbNil'[t] = cbNil[t] + 1]_vars

\* A call on key 2 has just returned nil with no session of key 2 left, while
\* the session of key 1 is in the registry with its timer armed.
C10_Witness ==
  /\ ret.r = "ok"
  /\ Has(1)
  /\ timers[m[1].timer].armed
  /\ ~Has(2)
  /\ \E t \in TimerIds : timers[t].key = 2

\* C11: every call of a callback carries a nil error: no timer function ever
\* calls cb(k, err) with the error of a Finish that found the key removed,
\* however its steps interleave with the Finish calls of clients.
C11_CallbackErrorNil == \A t \in TimerIds : cbErr[t] = 0

\* The timers of key k that can still act: armed, or with a timer function
\* running.
LiveTimers(k) ==
  {t \in TimerIds : timers[t].made /\ timers[t].key = k
                    /\ (timers[t].armed \/ Running(t) # {})}
\* A Prepare on k is past its existence check and has not returned yet.
PrepareInFlight(k) == \E p \in Procs : pc[p] \in {"prep_timer", "prep_set"} /\ lk[p] = k

\* C12: a key has at most one session, also when Prepare calls race: a key
\* never has more than one live timer; when no Prepare on it is in flight,
\* its live timer is the one stored in its registry entry; and a Prepare
\* returns nil only for a key that had no session when it stored its own.
C12_OneSessionPerKey ==
  /\ [](\A k \in Keys :
          /\ Cardinality(LiveTimers(k)) <= 1
          /\ ~PrepareInFlight(k) =>
               LiveTimers(k) \subseteq (IF Has(k) THEN {m[k].timer} ELSE {}))
  /\ [][\A p \in Procs : PrepareSet(p) => ~Has(lk[p])]_vars

\* C13: the duration Append's deferred Reset re-arms the timer of a session
\* with equals the duration Prepare armed it with: the session's timeout
\* counted in whole seconds.
C13_ResetEqualsPrepare ==
  [][\A p \in Procs, failed \in BOOLEAN :
       AppendCopy(p, failed) =>
         /\ ResetDuration(lu[p]) = PrepareDuration(lu[p].timeout)
         /\ ResetDuration(lu[p]) = Second * lu[p].timeout]_vars

\* ---- fair scheduling --------------------------------------------------------------
\* Every goroutine that has started an operation goes on to its next step,
\* every io.Copy ends, every due timer fires, every timer function runs on,
\* and time passes.  Nothing obliges a client to call Prepare, Append or
\* Finish.
Fairness ==
  /\ \A p \in Procs :
       /\ WF_vars(PrepareAfterFunc(p))
       /\ WF_vars(PrepareSet(p))
       /\ WF_vars(AppendStop(p))
       /\ WF_vars(\E failed \in BOOLEAN : AppendCopy(p, failed))
       /\ WF_vars(FinishStop(p))
       /\ WF_vars(FinishDel(p))
  /\ \A t \in TimerIds : WF_vars(Fire(t))
  /\ \A g \in FRuns :
       /\ WF_vars(FGet(g))
       /\ WF_vars(FFinishGet(g))
       /\ WF_vars(FFinishStop(g))
       /\ WF_vars(FFinishDel(g))
  /\ WF_vars(Tick)

\* The calls made on a key since its Prepare are observed, under fair
\* scheduling.
InitLive == InitWith({"touched"})
SpecLive == InitLive /\ [][Next]_vars /\ Fairness

\* C14: no session stays stuck: under fair scheduling, a session that is in
\* the registry and on whose key no Append and no Finish has been called is
\* eventually removed from the registry, unless such a call comes.
C14_NoStuckSession ==
  \A t \in TimerIds :
    (Current(t) /\ ~hist[t].touched) ~> (~Current(t) \/ hist[t].touched)

\* C15: a timer finalizes only its own session: when a timer function stops
\* a timer and removes the session of its key, and with that calls the
\* callback of its Prepare, the timer it stopped is its own and the session
\* it removes is the one that holds its own timer.
C15_TimerFinalizesOwnSession ==
  [][\A g \in FRuns :
       /\ FFinishStop(g) => g.ut = g.t
       /\ (FFinishDel(g) /\ Has(timers[g.t].key)) => m[timers[g.t].key].timer = g.t]_vars

\* Finish calls of clients that have read the session with timer t and are
\* past the existence check: each of them goes on to return nil.
Finishing(t) == {p \in Procs : pc[p] \in {"fin_stop", "fin_del"} /\ lu[p].timer = t}

\* C16: of the Finish calls that run at the same time on one session exactly
\* one returns nil: when a Finish removes the session it read and returns
\* nil, the session is still in the registry and no other Finish that read
\* the same session is past its existence check.
C16_OneFinishSucceeds ==
  [][\A p \in Procs :
       FinishDel(p) =>
         /\ Has(lk[p]) /\ m[lk[p]].timer = lu[p].timer
         /\ Finishing(lu[p].timer) = {p}]_vars

\* ==== the duration Prepare computes, in int64 ====================================
\* A time.Duration is an int64.  It is modelled exactly, as its Int64Bytes
\* bytes in two's complement, lowest byte first (a function on
\* 0..Int64Bytes-1), since its values go beyond the integers TLC computes
\* with.
Byte == 256
Int64Bytes == 8
\* time.Second, in nanoseconds.
TimeSecond == 1000000000

Int64Index == 0..(Int64Bytes - 1)
\* The int64 of a number 0 <= n < Byte^4.
ToInt64(n) == [i \in Int64Index |-> IF i < 4 THEN (n \div (Byte ^ i)) % Byte ELSE 0]

RECURSIVE SumUpTo(_, _)
SumUpTo(f, j) == IF j < 0 THEN 0 ELSE f[j] + SumUpTo(f, j - 1)
Digit(x, i) == IF i \in DOMAIN x THEN x[i] ELSE 0

\* The n lowest bytes of the product of a and b, by long multiplication.
MulBytes(a, b, n) ==
  LET Col(i) == SumUpTo([j \in 0..i |-> Digit(a, j) * Digit(b, i - j)], i)
      Carry[i \in 0..n] == IF i = 0 THEN 0 ELSE (Col(i - 1) + Carry[i - 1]) \div Byte
  IN [i \in 0..(n - 1) |-> (Col(i) + Carry[i]) % Byte]

\* Go's a * b on int64: the product, cut to 64 bits.
Int64Mul(a, b) == MulBytes(a, b, Int64Bytes)
\* The product of two int64 that are not negative, with nothing cut off.
ExactMul(a, b) == MulBytes(a, b, 2 * Int64Bytes)
\* An int64 that is not negative, written with as many bytes as ExactMul gives.
Widen(x) == [i \in 0..(2 * Int64Bytes - 1) |-> Digit(x, i)]

IsNegative(x) == x[Int64Bytes - 1] >= Byte \div 2
IsZero(x) == \A i \in Int64Index : x[i] = 0
IsPositive(x) == ~IsNegative(x) /\ ~IsZero(x)

\* Prepare: d := time.Second * time.Duration(timeout)
PrepareD(timeout) == Int64Mul(ToInt64(TimeSecond), timeout)

\* Timeouts Prepare is called with: positive int64 values from 1 up to
\* 2^63 - 1, among them 9223372036 (bytes 4, 125, 193, 37, 2) and
\* 9223372037, its successor.
DurationArgs ==
  {t \in {[i \in Int64Index |-> <<b0, b1, b2, b3, b4, 0, 0, b7>>[i + 1]] :
            b0 \in {0, 1, 4, 5, 255}, b1 \in {0, 125}, b2 \in {0, 193},
            b3 \in {0, 37}, b4 \in {0, 2}, b7 \in {0, 127}} :
     IsPositive(t)}

\* Prepare computes d for its argument timeout.
ComputeD ==
  /\ arg.f = "d"
  /\ out = NoValue
  /\ out' = [f |-> "d", d |-> PrepareD(arg.timeout)]
  /\ UNCHANGED <<m, timers, fs, pc, lk, lt, lu, obs, ret, dst, cbNil, cbErr, hist, slack, arg>>

InitDuration ==
  /\ NewScheduler({})
  /\ arg \in {[f |-> "d", timeout |-> t] : t \in DurationArgs}
  /\ out = NoValue
NextDuration == ComputeD
SpecDuration == InitDuration /\ [][NextDuration]_vars

\* C17: for every positive timeout, the duration d Prepare arms the timer
\* with is positive and is timeout seconds: the product of time.Second and
\* timeout computed in int64 is the exact product.
C17_DurationNoOverflow ==
  out.f = "d" =>
    /\ IsPositive(out.d)
    /\ Widen(out.d) = ExactMul(ToInt64(TimeSecond), arg.timeout)

\* ==== package godl: ServeDownload ====================================================
\* The response headers are a function from header names to values.
HeaderSet(h, k, v) == [x \in (DOMAIN h) \cup {k} |-> IF x = k THEN v ELSE h[x]]
HeaderGet(h, k) == IF k \in DOMAIN h THEN h[k] ELSE ""

\* url.QueryEscape on a name given as its characters: a space becomes "+",
\* a reserved character its %XX code, a letter stays.
EscapeChar(c) == CASE c = " " -> "+" [] c = "/" -> "%2F" [] c = "&" -> "%26" [] OTHER -> c
RECURSIVE QueryEscape(_)
QueryEscape(name) ==
  IF name = << >> THEN "" ELSE EscapeChar(Head(name)) \o QueryEscape(Tail(name))

\* SetContentType: m := infer(path); if m == "" { m = "application/octet-stream" }
\* with the result of infer(path) given as inferred.
SetContentType(h, inferred) ==
  LET mime == IF inferred = "" THEN "application/octet-stream" ELSE inferred
  IN HeaderSet(h, "Content-Type", mime)

SetAttachment(h, name) ==
  HeaderSet(h, "Content-Disposition", "attachment; filename*=UTF-8''" \o QueryEscape(name))

\* for _, it := range inlineTypes { if it == ct { inline = true; break } },
\* from element i on.
RECURSIVE Scan(_, _, _)
Scan(inlineTypes, ct, i) ==
  IF i > Len(inlineTypes) THEN FALSE
  ELSE IF inlineTypes[i] = ct THEN TRUE
  ELSE Scan(inlineTypes, ct, i + 1)

\* The loop alone, with inline := false before it: an empty list makes
\* nothing inline.
IsInlineListed(inlineTypes, ct) == Scan(inlineTypes, ct, 1)
\* inline := len(inlineTypes) == 0, then the loop.
IsInline(inlineTypes, ct) == Len(inlineTypes) = 0 \/ Scan(inlineTypes, ct, 1)

\* The headers ServeDownload has set when it calls http.ServeFile.
ServeDownload(h, name, inlineTypes, inferred) ==
  LET h1 == SetContentType(h, inferred)
  IN IF ~IsInline(inlineTypes, HeaderGet(h1, "Content-Type"))
     THEN SetAttachment(h1, name)
     ELSE h1

\* What infer may return, the inlineTypes lists, the file names and the
\* headers the response already has when ServeDownload is called.
Inferred == {"", "text/plain", "image/png", "application/octet-stream"}
TypeLists == UNION {[1..n -> Inferred] : n \in 0..MaxTypes}
Names == {<<"a">>, <<"a", " ", "b">>, <<"a", "/", "&">>}
Headers0 ==
  { << >>,
    [x \in {"Content-Type"} |-> "text/html"],
    [x \in {"Content-Disposition"} |-> "inline"] }

ServeDownloadCall ==
  /\ arg.f = "ServeDownload"
  /\ out = NoValue
  /\ out' = [f |-> "ServeDownload",
             h |-> ServeDownload(arg.h, arg.name, arg.inlineTypes, arg.inferred)]
  /\ UNCHANGED <<m, timers, fs, pc, lk, lt, lu, obs, ret, dst, cbNil, cbErr, hist, slack, arg>>

InitDownload ==
  /\ NewScheduler({})
  /\ arg \in [f : {"ServeDownload"}, h : Headers0, name : Names,
              inlineTypes : TypeLists, inferred : Inferred]
  /\ out = NoValue
NextDownload == ServeDownloadCall
SpecDownload == InitDownload /\ [][NextDownload]_vars

\* The Content-Type chosen for the file, and whether it is in the list.
Chosen == IF arg.inferred = "" THEN "application/octet-stream" ELSE arg.inferred
Listed == \E i \in DOMAIN arg.inlineTypes : arg.inlineTypes[i] = Chosen

\* C18: ServeDownload sets Content-Type to the inferred type, or to
\* application/octet-stream when infer returns "", in all cases; it sets
\* Content-Disposition to the attachment value if the inlineTypes list is not
\* empty and does not contain that Content-Type, and leaves
\* Content-Disposition as it was otherwise, so that with an empty list every
\* type is served inline.
C18_AttachmentIffNotListed ==
  out.f = "ServeDownload" =>
    /\ DOMAIN out.h = DOMAIN arg.h \cup {"Content-Type"}
                        \cup (IF arg.inlineTypes # << >> /\ ~Listed
                              THEN {"Content-Disposition"} ELSE {})
    /\ out.h["Content-Type"] = Chosen
    /\ IF arg.inlineTypes # << >> /\ ~Listed
       THEN out.h["Content-Disposition"] =
              "attachment; filename*=UTF-8''" \o QueryEscape(arg.name)
       ELSE HeaderGet(out.h, "Content-Disposition") = HeaderGet(arg.h, "Content-Disposition")

\* ServeDownload has marked as an attachment a file whose inferred type was
\* empty, for a list that holds "" but not application/octet-stream.
C18_Witness ==
  /\ out.f = "ServeDownload"
  /\ arg.inferred = ""
  /\ arg.inlineTypes # << >>
  /\ \E i \in DOMAIN arg.inlineTypes : arg.inlineTypes[i] = ""
  /\ "Content-Disposition" \in DOMAIN out.h
  /\ out.h["Content-Disposition"] # "inline"
  /\ out.h["Content-Type"] = "application/octet-stream"

====
